---- MODULE Spec2Model ----
(***************************************************************************)
(* State-machine model of main.py: the enrichment loop of main, the        *)
(* candidate resolver get_place_id_from_text_query with its retry ladder,  *)
(* the type classifier check_type_in_response, the detail and photo        *)
(* lookups, and the persistence step (psycopg2 connection, create-table,   *)
(* to_sql append, cleanup block, final spreadsheet).                       *)
(*                                                                         *)
(* Python values.  Strings are TLA+ strings.  The two non-string objects   *)
(* that reach string code, None and the float nan of a blank spreadsheet   *)
(* cell, are the sentinels None and NaN below; Str is Python's str() on    *)
(* them.  A JSON object is a record: key k is present iff k \in DOMAIN.    *)
(***************************************************************************)
EXTENDS Integers, Sequences, FiniteSets, TLC

VARIABLES
    xlsx,            \* list-provider.xlsx: the input rows (never written)
    data_frame,      \* main's data_frame
    pc,              \* main's position
    index,           \* the row the for loop is at (0 before the first)
    place_id,        \* get_place_id_from_text_query: place_id
    retry_count,     \* get_place_id_from_text_query: retry_count
    queries,         \* text queries issued for the current row, in order
    response,        \* the last response get_place_api returned for the row
    examined,        \* candidates of that response the for loop looked at
    details,         \* place ids the detail endpoint was asked for (current row)
    photo_reference, \* argument evaluated at line 246
    errors,          \* row indices whose fault the except block logged
    fault,           \* the exception the except block caught for the current row
    written,         \* spreadsheets this run wrote: name -> ids of the rows
    connection,      \* main's local `connection`
    cursor,          \* main's local `cursor`
    stmts,           \* database statements this run issued, in order
    db_error,        \* the batch-level except block printed an error
    table,           \* public.list_rumah_sakit: the id column of its rows
    types,           \* check_type_in_response: the label list it is given
    verdict          \* check_type_in_response: its return value

vars == <<xlsx, data_frame, pc, index, place_id, retry_count, queries, response,
          examined, details, photo_reference, errors, fault, written, connection, cursor,
          stmts, db_error, table, types, verdict>>

----------------------------------------------------------------------------
(* Bounds of the model *)

NumRows == 2        \* rows of the input spreadsheet
MaxCandidates == 2  \* candidates in one text-query response
MaxRuns == 2        \* successful runs of the script against the same database

----------------------------------------------------------------------------
(* Python values *)

None == "<None>"    \* the object None (not a str)
NaN == "<nan>"      \* float nan: a blank cell read by read_excel (not a str)

\* mutant: the unresolved result is stored as the empty string
Str_empty(v) == IF v = None THEN "" ELSE IF v = NaN THEN "nan" ELSE v

\* str(v)
Str(v) == IF v = None THEN "None" ELSE IF v = NaN THEN "nan" ELSE v

\* str(n) for an int n
StrInt(n) == ToString(n)

\* a + b raises TypeError when one side is a float and the other a str
CanConcat(a, b) == a # NaN /\ b # NaN

Range(s) == {s[i] : i \in 1..Len(s)}

----------------------------------------------------------------------------
(* check_type_in_response *)

type_options == <<"health", "hospital", "pharmacy", "dentist">>

\* Python `x in lst` for a list: some element equals x
InList(x, lst) == \E j \in 1..Len(lst) : lst[j] = x

\* Python `a in b` for two str: a is a substring of b
InStr(a, b) == \E i \in 1..(Len(b) - Len(a) + 1) : SubSeq(b, i, i + Len(a) - 1) = a

\* mutant: a label qualifies when it contains a recognized type
check_type_in_response_substring(store_type) ==
    \E k \in 1..Len(type_options) :
        \E j \in 1..Len(store_type) : InStr(type_options[k], store_type[j])

check_type_in_response(store_type) ==
    \E k \in 1..Len(type_options) : InList(type_options[k], store_type)

----------------------------------------------------------------------------
(* The places service, as seen by the script *)

api_key == "KEY"

\* label lists a candidate may carry
TypeLists == {<<"dentist_office">>, <<"store", "hospital">>}

PlaceIdOf(i) == "place" \o ToString(i)

\* candidate lists: the i-th candidate is the place PlaceIdOf(i)
CandidateLists ==
    UNION {[1..n -> TypeLists] : n \in 0..MaxCandidates}

Candidates(tl) == [i \in 1..Len(tl) |-> [place_id |-> PlaceIdOf(i), types |-> tl[i]]]

\* what requests.get + response.json() can give get_place_id_from_text_query:
\* an exception, a non-200 response, a 200 response whose JSON has no candidates,
\* a 200 response with a candidate list
NoResponse == [kind |-> "none"]
TextOutcomes ==
    {[kind |-> "raise"],
     [kind |-> "http", status_code |-> 500],
     [kind |-> "http", status_code |-> 200, json |-> [status |-> "REQUEST_DENIED"]]}
    \cup {[kind |-> "http", status_code |-> 200,
           json |-> [candidates |-> Candidates(tl), status |-> "OK"]] : tl \in CandidateLists}

\* what requests.get + response.json() can give get_place_info_from_place_id:
\* an exception, or a JSON object with any prefix of the keys main reads
Location == [lat |-> -6, lng |-> 106]
DetailOutcomes ==
    {[kind |-> "raise"],
     [kind |-> "json", json |-> [status |-> "INVALID_REQUEST"]],
     [kind |-> "json", json |-> [result |-> [url |-> "https://maps.google.com/?cid=1"]]],
     [kind |-> "json", json |-> [result |-> [url |-> "https://maps.google.com/?cid=1",
                                             geometry |-> [location |-> [lat |-> Location.lat]]]]],
     [kind |-> "json", json |-> [result |-> [url |-> "https://maps.google.com/?cid=1",
                                             geometry |-> [location |-> Location]]]],
     [kind |-> "json", json |-> [result |-> [url |-> "https://maps.google.com/?cid=1",
                                             geometry |-> [location |-> Location],
                                             photos |-> <<>>]]],
     [kind |-> "json", json |-> [result |-> [url |-> "https://maps.google.com/?cid=1",
                                             geometry |-> [location |-> Location],
                                             photos |-> <<[photo_reference |-> "abc"]>>]]]}

\* what requests.get can give get_image_url_from_photo_preference: an exception, or
\* a response whose .url is the request URL with its query parameters
PhotoUrl(ref, key) ==
    "https://maps.googleapis.com/maps/api/place/photo?maxwidth=400&photo_reference="
        \o ref \o "&key=" \o key
ImageOutcomes == {[kind |-> "raise"], [kind |-> "url"]}

----------------------------------------------------------------------------
(* The input spreadsheet *)

\* tables of NumRows rows; the name cell of the first row may be blank
InputTables ==
    {[i \in 1..NumRows |->
        [id |-> i,
         name |-> IF i = b THEN NaN ELSE "Klinik Sehat",
         address |-> "Jl. Mawar 1",
         city |-> "Jakarta"]] : b \in {0, 1}}

SNAPSHOT == "output_file_selesai_belum.xlsx"
FINAL == "list-provider-end.xlsx"

Ids(df) == [i \in 1..Len(df) |-> df[i].id]

Init ==
    /\ xlsx \in InputTables
    /\ data_frame = <<>>
    /\ pc = "start"
    /\ index = 0
    /\ place_id = None
    /\ retry_count = 0
    /\ queries = <<>>
    /\ response = NoResponse
    /\ examined = 0
    /\ details = <<>>
    /\ photo_reference = None
    /\ errors = {}
    /\ fault = ""
    /\ written = <<>>
    /\ connection = "unbound"
    /\ cursor = "unbound"
    /\ stmts = <<>>
    /\ db_error = FALSE
    /\ table = <<>>
    /\ types = <<>>
    /\ verdict = FALSE

----------------------------------------------------------------------------
(* main, lines 202-225: read the spreadsheet, add the working columns *)

AddColumns(r) ==
    [id |-> r.id, name |-> r.name, address |-> r.address, city |-> r.city,
     alamat_parameter |-> Str(r.name) \o ", " \o Str(r.address) \o ", " \o Str(r.city),
     place_id |-> "", map_url |-> "", latitude |-> "", longitude |-> "",
     image_url |-> ""]

LoadTable ==
    /\ pc = "start"
    /\ data_frame' = [i \in 1..Len(xlsx) |-> AddColumns(xlsx[i])]
    /\ pc' = "rows"
    /\ UNCHANGED <<types, verdict, xlsx, index, place_id, retry_count, queries,
                   response, examined, details, photo_reference, errors, fault, written,
                   connection, cursor, stmts, db_error, table>>

----------------------------------------------------------------------------
(* main, lines 226-253: the enrichment loop *)

max_retries == 3

\* the for loop takes the next row and enters get_place_id_from_text_query
BeginRow ==
    /\ pc = "rows"
    /\ index < Len(data_frame)
    /\ index' = index + 1
    /\ pc' = "resolve"
    /\ place_id' = None
    /\ retry_count' = 0
    /\ queries' = <<>>
    /\ response' = NoResponse
    /\ examined' = 0
    /\ details' = <<>>
    /\ photo_reference' = None
    /\ fault' = ""
    /\ UNCHANGED <<types, verdict, xlsx, data_frame, errors, written, connection,
                   cursor, stmts, db_error, table>>

\* mutant: the fault leaves the loop instead of the row
RowFault_abort(e) ==
    /\ fault' = e
    /\ errors' = errors \cup {index}
    /\ index' = Len(data_frame)
    /\ pc' = "rows"
    /\ place_id' = None
    /\ retry_count' = 0
    /\ queries' = <<>>
    /\ response' = NoResponse
    /\ examined' = 0
    /\ photo_reference' = None

\* lines 251-253, the except block of the loop: log the fault e, go on with the
\* next row.  The locals of the interrupted calls are gone.
RowFault(e) ==
    /\ fault' = e
    /\ errors' = errors \cup {index}
    /\ index' = index
    /\ pc' = "rows"
    /\ place_id' = None
    /\ retry_count' = 0
    /\ queries' = <<>>
    /\ response' = NoResponse
    /\ examined' = 0
    /\ photo_reference' = None

\* mutant: the address is tried before name + ", " + city
QueryText_swapped(row, n) ==
    IF n = 0 THEN [ok |-> TRUE, value |-> row.alamat_parameter]
    ELSE IF n = 2 THEN
        IF CanConcat(row.name, ", ") /\ CanConcat(row.name \o ", ", row.city)
        THEN [ok |-> TRUE, value |-> row.name \o ", " \o row.city]
        ELSE [ok |-> FALSE, value |-> None]
    ELSE IF n = 1 THEN [ok |-> TRUE, value |-> row.address]
    ELSE [ok |-> TRUE, value |-> None]

\* lines 74-79: the query text of an attempt; not ok when the + raises TypeError
QueryText(row, n) ==
    IF n = 0 THEN [ok |-> TRUE, value |-> row.alamat_parameter]
    ELSE IF n = 1 THEN
        IF CanConcat(row.name, ", ") /\ CanConcat(row.name \o ", ", row.city)
        THEN [ok |-> TRUE, value |-> row.name \o ", " \o row.city]
        ELSE [ok |-> FALSE, value |-> None]
    ELSE IF n = 2 THEN [ok |-> TRUE, value |-> row.address]
    ELSE [ok |-> TRUE, value |-> None]

\* get_place_api: the request is made only for a value that is not None
get_place_api(value, outcome) == IF value # None THEN outcome ELSE [kind |-> "null"]

\* mutant: no break, the last qualifying candidate wins
FirstAccepted_last(candidates) ==
    IF \E i \in 1..Len(candidates) : check_type_in_response(candidates[i].types)
    THEN CHOOSE i \in 1..Len(candidates) :
            /\ check_type_in_response(candidates[i].types)
            /\ \A j \in (i + 1)..Len(candidates) :
                  ~check_type_in_response(candidates[j].types)
    ELSE 0

\* lines 88-93: index of the candidate the for loop breaks at, 0 if it runs out
FirstAccepted(candidates) ==
    IF \E i \in 1..Len(candidates) : check_type_in_response(candidates[i].types)
    THEN CHOOSE i \in 1..Len(candidates) :
            /\ check_type_in_response(candidates[i].types)
            /\ \A j \in 1..(i - 1) : ~check_type_in_response(candidates[j].types)
    ELSE 0

\* mutant: a failed lookup is swallowed and counts as a response without a
\* qualifying candidate
Attempt_swallow(value, outcome) ==
    LET r == get_place_api(value, outcome) IN
    IF r.kind # "http" \/ r.status_code # 200 \/ "candidates" \notin DOMAIN r.json
    THEN [error |-> "", accepted |-> None, examined |-> 0]
    ELSE LET i == FirstAccepted(r.json.candidates) IN
         [error |-> "",
          accepted |-> IF i = 0 THEN None ELSE r.json.candidates[i].place_id,
          examined |-> IF i = 0 THEN Len(r.json.candidates) ELSE i]

\* lines 82-93: what one attempt does with what the request gave: the exception
\* that leaves the resolver ("" if none) and the place id it accepts (None if none)
Attempt(value, outcome) ==
    LET r == get_place_api(value, outcome) IN
    IF r.kind = "raise"
    THEN [error |-> "findplacefromtext: RequestException", accepted |-> None, examined |-> 0]
    ELSE IF r.kind = "null"
    THEN [error |-> "AttributeError", accepted |-> None, examined |-> 0]
    ELSE IF r.status_code # 200
    THEN [error |-> "", accepted |-> None, examined |-> 0]
    ELSE IF "candidates" \notin DOMAIN r.json
    THEN [error |-> "KeyError: candidates", accepted |-> None, examined |-> 0]
    ELSE LET i == FirstAccepted(r.json.candidates) IN
         [error |-> "",
          accepted |-> IF i = 0 THEN None ELSE r.json.candidates[i].place_id,
          examined |-> IF i = 0 THEN Len(r.json.candidates) ELSE i]

\* one iteration of the while loop of get_place_id_from_text_query (lines 70-95)
TextQuery ==
    /\ pc = "resolve"
    /\ place_id = None /\ retry_count < max_retries
    /\ LET q == QueryText(data_frame[index], retry_count) IN
       IF ~q.ok
       THEN RowFault("TypeError")
       ELSE \E outcome \in TextOutcomes :
            LET a == Attempt(q.value, outcome) IN
            IF a.error # ""
            THEN RowFault(a.error)
            ELSE /\ place_id' = a.accepted
                 /\ retry_count' = retry_count + 1
                 /\ queries' = Append(queries, q.value)
                 /\ response' = outcome
                 /\ examined' = a.examined
                 /\ UNCHANGED <<pc, index, errors, fault, photo_reference>>
    /\ UNCHANGED <<types, verdict, xlsx, data_frame, details, written, connection,
                   cursor, stmts, db_error, table>>

\* line 97 and lines 230-233: the resolver returns, main stores str(place_id)
ResolverReturn ==
    /\ pc = "resolve"
    /\ ~(place_id = None /\ retry_count < max_retries)
    /\ data_frame' = [data_frame EXCEPT ![index].place_id = Str(place_id)]
    /\ pc' = "detail"
    /\ place_id' = None
    /\ retry_count' = 0
    /\ queries' = <<>>
    /\ response' = NoResponse
    /\ examined' = 0
    /\ UNCHANGED <<types, verdict, xlsx, index, details, photo_reference, errors, fault,
                   written, connection, cursor, stmts, db_error, table>>

\* mutant: the fields are stored only once all of them were read
Extract_atomic(row, place_result) ==
    IF "result" \notin DOMAIN place_result
    THEN [row |-> row, error |-> "KeyError: result", ref |-> None]
    ELSE LET res == place_result.result IN
    IF "url" \notin DOMAIN res
    THEN [row |-> row, error |-> "KeyError: url", ref |-> None]
    ELSE IF "geometry" \notin DOMAIN res \/ "lat" \notin DOMAIN res.geometry.location
    THEN [row |-> row, error |-> "KeyError: lat", ref |-> None]
    ELSE IF "lng" \notin DOMAIN res.geometry.location
    THEN [row |-> row, error |-> "KeyError: lng", ref |-> None]
    ELSE IF "photos" \notin DOMAIN res
    THEN [row |-> row, error |-> "KeyError: photos", ref |-> None]
    ELSE IF Len(res.photos) = 0
    THEN [row |-> row, error |-> "IndexError", ref |-> None]
    ELSE [row |-> [row EXCEPT !.map_url = Str(res.url),
                              !.latitude = StrInt(res.geometry.location.lat),
                              !.longitude = StrInt(res.geometry.location.lng)],
          error |-> "", ref |-> res.photos[1].photo_reference]

\* lines 237-246 on the detail payload: the assignments made, in order, up to the
\* first key that is missing
Extract(row, place_result) ==
    IF "result" \notin DOMAIN place_result
    THEN [row |-> row, error |-> "KeyError: result", ref |-> None]
    ELSE LET res == place_result.result IN
    IF "url" \notin DOMAIN res
    THEN [row |-> row, error |-> "KeyError: url", ref |-> None]
    ELSE LET r1 == [row EXCEPT !.map_url = Str(res.url)] IN
    IF "geometry" \notin DOMAIN res \/ "lat" \notin DOMAIN res.geometry.location
    THEN [row |-> r1, error |-> "KeyError: lat", ref |-> None]
    ELSE LET r2 == [r1 EXCEPT !.latitude = StrInt(res.geometry.location.lat)] IN
    IF "lng" \notin DOMAIN res.geometry.location
    THEN [row |-> r2, error |-> "KeyError: lng", ref |-> None]
    ELSE LET r3 == [r2 EXCEPT !.longitude = StrInt(res.geometry.location.lng)] IN
    IF "photos" \notin DOMAIN res
    THEN [row |-> r3, error |-> "KeyError: photos", ref |-> None]
    ELSE IF Len(res.photos) = 0
    THEN [row |-> r3, error |-> "IndexError", ref |-> None]
    ELSE [row |-> r3, error |-> "", ref |-> res.photos[1].photo_reference]

\* lines 236-246: get_place_info_from_place_id, then the extraction
FetchDetail ==
    /\ pc = "detail"
    /\ details' = Append(details, data_frame[index].place_id)
    /\ \E outcome \in DetailOutcomes :
         IF outcome.kind = "raise"
         THEN RowFault("details: RequestException") /\ UNCHANGED data_frame
         ELSE LET x == Extract(data_frame[index], outcome.json) IN
              /\ data_frame' = [data_frame EXCEPT ![index] = x.row]
              /\ IF x.error # ""
                 THEN RowFault(x.error)
                 ELSE /\ photo_reference' = x.ref
                      /\ pc' = "image"
                      /\ UNCHANGED <<index, errors, fault, place_id, retry_count,
                                     queries, response, examined>>
    /\ UNCHANGED <<types, verdict, xlsx, written, connection, cursor, stmts, db_error,
                   table>>

\* lines 245-249: get_image_url_from_photo_preference, then the assignment
DeriveImage ==
    /\ pc = "image"
    /\ \E outcome \in ImageOutcomes :
         IF outcome.kind = "raise"
         THEN RowFault("photo: RequestException") /\ UNCHANGED data_frame
         ELSE /\ data_frame' = [data_frame EXCEPT
                                   ![index].image_url = PhotoUrl(photo_reference, api_key)]
              /\ pc' = "rows"
              /\ photo_reference' = None
              /\ UNCHANGED <<index, errors, fault, place_id, retry_count, queries,
                             response, examined>>
    /\ UNCHANGED <<types, verdict, xlsx, details, written, connection, cursor, stmts,
                   db_error, table>>

----------------------------------------------------------------------------
(* main, lines 255-290: snapshot, persistence, cleanup, final spreadsheet *)

columns_to_delete == {"alamat_parameter", "place_id"}

\* data_frame.drop(columns=...)
Drop(df, columns) ==
    [i \in 1..Len(df) |-> [c \in (DOMAIN df[i]) \ columns |-> df[i][c]]]

\* data_frame.to_excel(file): the file and the rows it holds
to_excel(df, file) == [file |-> file, rows |-> Ids(df), columns |-> DOMAIN df[1]]

\* lines 255-265: the loop is over; first snapshot, then the working columns go
EndLoop ==
    /\ pc = "rows"
    /\ index = Len(data_frame)
    /\ written' = Append(written, to_excel(data_frame, SNAPSHOT))
    /\ data_frame' = Drop(data_frame, columns_to_delete)
    /\ pc' = "connect"
    /\ details' = <<>>
    /\ fault' = ""
    /\ UNCHANGED <<types, verdict, xlsx, index, place_id, retry_count, queries,
                   response, examined, photo_reference, errors, connection, cursor,
                   stmts, db_error, table>>

\* lines 279-280: the except block of the persistence step
DbFault ==
    /\ db_error' = TRUE
    /\ pc' = "finally"

\* line 271: psycopg2.connect
Connect ==
    /\ pc = "connect"
    /\ \/ connection' = "open" /\ pc' = "cursor" /\ UNCHANGED db_error
       \/ DbFault /\ UNCHANGED connection
    /\ UNCHANGED <<types, verdict, xlsx, data_frame, index, place_id, retry_count,
                   queries, response, examined, details, photo_reference, errors, fault,
                   written, cursor, stmts, table>>

\* line 274: connection.cursor()
OpenCursor ==
    /\ pc = "cursor"
    /\ \/ cursor' = "open" /\ pc' = "create" /\ UNCHANGED db_error
       \/ DbFault /\ UNCHANGED cursor
    /\ UNCHANGED <<types, verdict, xlsx, data_frame, index, place_id, retry_count,
                   queries, response, examined, details, photo_reference, errors, fault,
                   written, connection, stmts, table>>

CREATE_TABLE == "CREATE TABLE IF NOT EXISTS public.list_rumah_sakit"

\* check_table_exits: execute, then commit.  The statement leaves the rows of an
\* existing table alone, and an absent table is an empty one afterwards.
check_table_exits ==
    /\ pc = "create"
    /\ \/ /\ stmts' = stmts \o <<CREATE_TABLE, "COMMIT">>
          /\ pc' = "insert"
          /\ UNCHANGED db_error
       \/ /\ stmts' = Append(stmts, CREATE_TABLE)
          /\ DbFault
       \/ /\ stmts' = stmts
          /\ DbFault
    /\ UNCHANGED <<types, verdict, xlsx, data_frame, index, place_id, retry_count,
                   queries, response, examined, details, photo_reference, errors, fault,
                   written, connection, cursor, table>>

\* mutant: if_exists="replace"
to_sql_replace(rows, df) == Ids(df)

\* data_frame.to_sql(table_name, engine, if_exists="append", index=False)
to_sql(rows, df) == rows \o Ids(df)

\* insert_data, then the end of the try block
insert_data ==
    /\ pc = "insert"
    /\ \/ /\ table' = to_sql(table, data_frame)
          /\ stmts' = Append(stmts, "INSERT")
          /\ pc' = "finally"
          /\ UNCHANGED db_error
       \/ /\ DbFault
          /\ UNCHANGED <<table, stmts>>
    /\ UNCHANGED <<types, verdict, xlsx, data_frame, index, place_id, retry_count,
                   queries, response, examined, details, photo_reference, errors, fault,
                   written, connection, cursor>>

\* lines 282-290: the finally block, then the final spreadsheet.  Reading a local
\* that was never assigned raises UnboundLocalError, which leaves main.
Finally ==
    /\ pc = "finally"
    /\ IF cursor = "unbound"
       THEN /\ pc' = "crashed"
            /\ UNCHANGED <<cursor, connection, written>>
       ELSE /\ cursor' = "closed"
            /\ connection' = "closed"
            /\ written' = Append(written, to_excel(data_frame, FINAL))
            /\ pc' = "done"
    /\ UNCHANGED <<types, verdict, xlsx, data_frame, index, place_id, retry_count,
                   queries, response, examined, details, photo_reference, errors, fault,
                   stmts, db_error, table>>

\* the script is started again on the same spreadsheet and the same database
Rerun ==
    /\ pc \in {"done", "crashed"}
    /\ Len(table) < MaxRuns * Len(xlsx)
    /\ data_frame' = <<>>
    /\ pc' = "start"
    /\ index' = 0
    /\ place_id' = None
    /\ retry_count' = 0
    /\ queries' = <<>>
    /\ response' = NoResponse
    /\ examined' = 0
    /\ details' = <<>>
    /\ photo_reference' = None
    /\ errors' = {}
    /\ fault' = ""
    /\ written' = <<>>
    /\ connection' = "unbound"
    /\ cursor' = "unbound"
    /\ stmts' = <<>>
    /\ db_error' = FALSE
    /\ UNCHANGED <<types, verdict, xlsx, table>>

Next ==
    \/ LoadTable
    \/ BeginRow
    \/ TextQuery
    \/ ResolverReturn
    \/ FetchDetail
    \/ DeriveImage
    \/ EndLoop
    \/ Connect
    \/ OpenCursor
    \/ check_table_exits
    \/ insert_data
    \/ Finally
    \/ Rerun

Spec == Init /\ [][Next]_vars

----------------------------------------------------------------------------
(* check_type_in_response on its own: any label list in, its verdict out *)

MaxLabels == 2      \* labels in one label list

Labels == {"health", "hospital", "pharmacy", "dentist", "dentist_office", "store",
           "health_food"}

LabelLists == UNION {[1..n -> Labels] : n \in 0..MaxLabels}

InitClassifier ==
    /\ xlsx \in InputTables
    /\ data_frame = <<>>
    /\ pc = "classify"
    /\ index = 0
    /\ place_id = None
    /\ retry_count = 0
    /\ queries = <<>>
    /\ response = NoResponse
    /\ examined = 0
    /\ details = <<>>
    /\ photo_reference = None
    /\ errors = {}
    /\ fault = ""
    /\ written = <<>>
    /\ connection = "unbound"
    /\ cursor = "unbound"
    /\ stmts = <<>>
    /\ db_error = FALSE
    /\ table = <<>>
    /\ types \in LabelLists
    /\ verdict = FALSE

Classify ==
    /\ pc = "classify"
    /\ verdict' = check_type_in_response(types)
    /\ pc' = "classified"
    /\ UNCHANGED <<types, xlsx, data_frame, index, place_id, retry_count, queries,
                   response, examined, details, photo_reference, errors, fault, written,
                   connection, cursor, stmts, db_error, table>>

NextClassifier == Classify

SpecClassifier == InitClassifier /\ [][NextClassifier]_vars

----------------------------------------------------------------------------
(* Properties *)

Row == data_frame[index]

InLoop == pc \in {"rows", "resolve", "detail", "image"}

\* row i went through the pipeline to its end: by a logged fault or by success
Finished(i) == i \in errors \/ data_frame[i].image_url # ""

\* C1: the enrichment loop keeps exactly one row per input row, in input order; the
\* rows are taken one at a time in input order, a row is finished (by a fault or by
\* success) before the next one starts, none is skipped, and every spreadsheet
\* written holds the rows in input order.
C1_OneRowPerInputRowInOrder ==
    pc \notin {"start", "classify", "classified"} =>
        /\ Len(data_frame) = Len(xlsx)
        /\ \A i \in 1..Len(xlsx) :
              /\ data_frame[i].id = xlsx[i].id
              /\ data_frame[i].name = xlsx[i].name
              /\ data_frame[i].address = xlsx[i].address
              /\ data_frame[i].city = xlsx[i].city
        /\ index \in 0..Len(xlsx)
        /\ errors \subseteq 1..index
        /\ \A i \in (index + 1)..Len(xlsx) :
              /\ data_frame[i].place_id = "" /\ data_frame[i].map_url = ""
              /\ data_frame[i].latitude = "" /\ data_frame[i].longitude = ""
              /\ data_frame[i].image_url = ""
        /\ \A i \in 1..index : (i < index \/ pc \notin {"resolve", "detail", "image"})
                                  => Finished(i)
        /\ ~InLoop => index = Len(xlsx)
        /\ \A k \in 1..Len(written) : written[k].rows = Ids(xlsx)

C1_Witness ==
    /\ pc = "connect"
    /\ Len(written) = 1 /\ written[1].rows = <<1, 2>>
    /\ errors = {1}
    /\ data_frame[2].image_url # ""

\* C2 as stated: no failure of the text lookup (an exception of the request, a
\* payload without a candidates list) ever ends the resolver in a fault.
C2_Original ==
    fault \notin {"findplacefromtext: RequestException", "KeyError: candidates"}

\* C2, amended: only a non-200 response is treated like a response without a
\* qualifying candidate (the counter advances, nothing is logged, the resolver
\* goes on); an exception of the request or a 200 payload without a candidates list
\* leaves the resolver as a fault, with no further query and no detail lookup, and
\* is logged for the row, whose place_id stays the empty string.
C2_LookupFailure ==
    /\ pc = "resolve" =>
          /\ response.kind \in {"none", "http"}
          /\ (response.kind = "http" /\ response.status_code = 200)
                => "candidates" \in DOMAIN response.json
          /\ (response.kind = "http" /\ response.status_code # 200)
                => /\ place_id = None
                   /\ retry_count = Len(queries) /\ retry_count >= 1
                   /\ index \notin errors /\ fault = ""
    /\ fault \in {"findplacefromtext: RequestException", "KeyError: candidates"}
          => /\ pc = "rows" /\ index \in errors
             /\ queries = <<>> /\ details = <<>>
             /\ Row.place_id = ""

C2_Witness ==
    /\ pc = "rows"
    /\ fault = "findplacefromtext: RequestException"
    /\ index = 1 /\ Row.place_id = ""

\* C3 as stated: whatever fails in the database step, main ends normally and both
\* spreadsheets are written.
C3_Original ==
    pc \in {"done", "crashed"} =>
        /\ pc = "done"
        /\ \E k \in 1..Len(written) : written[k].file = SNAPSHOT
        /\ \E k \in 1..Len(written) : written[k].file = FINAL

Recognized == {"health", "hospital", "pharmacy", "dentist"}

\* C4 as stated: the verdict is true iff some label contains one of health,
\* hospital, pharmacy, dentist as a substring.
C4_Original ==
    pc = "classified" =>
        (verdict <=> \E l \in Range(types) : \E o \in Recognized : InStr(o, l))

\* C4, amended: the verdict is true iff some label of the list is equal to one of
\* health, hospital, pharmacy, dentist (a list holding only dentist_office does not
\* qualify), and it is false for the empty list.
C4_ExactLabel ==
    pc = "classified" =>
        /\ verdict <=> (Range(types) \cap Recognized # {})
        /\ types = <<>> => ~verdict

C4_Witness ==
    /\ pc = "classified"
    /\ types = <<"store", "dentist">>
    /\ verdict

\* the values the detail payloads of the model carry, as main stores them
URL == "https://maps.google.com/?cid=1"
LAT == "-6"
LNG == "106"

ResolverFaults ==
    {"TypeError", "AttributeError", "findplacefromtext: RequestException",
     "KeyError: candidates"}

\* C5: when a row faults, the fields assigned before the fault keep their values,
\* the others stay the empty string, the fault is logged for the row and the loop
\* is back at its head; a row whose detail fetch faults has place_id set and
\* map_url, latitude, longitude, image_url empty.
C5_FaultKeepsAssignedFields ==
    /\ fault # "" =>
          /\ pc = "rows" /\ index \in errors
          /\ fault \in ResolverFaults =>
                /\ Row.place_id = "" /\ details = <<>>
                /\ Row.map_url = "" /\ Row.latitude = "" /\ Row.longitude = ""
                /\ Row.image_url = ""
          /\ fault \notin ResolverFaults =>
                /\ Row.place_id # "" /\ details = <<Row.place_id>>
          /\ fault \in {"details: RequestException", "KeyError: result", "KeyError: url"} =>
                /\ Row.map_url = "" /\ Row.latitude = "" /\ Row.longitude = ""
                /\ Row.image_url = ""
          /\ fault = "KeyError: lat" =>
                /\ Row.map_url = URL /\ Row.latitude = "" /\ Row.longitude = ""
                /\ Row.image_url = ""
          /\ fault = "KeyError: lng" =>
                /\ Row.map_url = URL /\ Row.latitude = LAT /\ Row.longitude = ""
                /\ Row.image_url = ""
          /\ fault \in {"KeyError: photos", "IndexError", "photo: RequestException"} =>
                /\ Row.map_url = URL /\ Row.latitude = LAT /\ Row.longitude = LNG
                /\ Row.image_url = ""
    /\ InLoop => \A i \in 1..Len(data_frame) :
          i \in errors => data_frame[i].image_url = ""

C5_Witness ==
    /\ pc = "rows"
    /\ fault = "details: RequestException"
    /\ Row.place_id = "place1"
    /\ Row.map_url = "" /\ Row.image_url = ""

\* the candidates of the last response that satisfy the type classifier
Hits == IF response.kind = "http" /\ response.status_code = 200
        THEN {i \in 1..Len(response.json.candidates) :
                 check_type_in_response(response.json.candidates[i].types)}
        ELSE {}

Min(S) == CHOOSE m \in S : \A n \in S : m <= n

\* C6: the resolver accepts the first candidate, in response order, that satisfies
\* the classifier, at the first attempt whose response has one; it looks at no
\* candidate after it and the step after an acceptance is the return, with no
\* further text query; an acceptance at attempt 1 means exactly 1 text query.
C6_FirstAcceptedStops ==
    /\ [](pc = "resolve" =>
            /\ Hits = {} => place_id = None
            /\ Hits # {} =>
                  /\ place_id = response.json.candidates[Min(Hits)].place_id
                  /\ examined = Min(Hits)
            /\ Len(queries) = retry_count
            /\ (Hits # {} /\ retry_count = 1) => Len(queries) = 1)
    /\ [][(pc = "resolve" /\ place_id # None)
            => (pc' = "detail" /\ data_frame'[index].place_id = place_id
                /\ details' = details)]_vars
    /\ [][(pc = "resolve" /\ pc' = "resolve") => place_id = None]_vars

C6_Witness ==
    /\ pc = "resolve"
    /\ Len(queries) = 1
    /\ Hits = {1, 2}
    /\ place_id = "place1" /\ examined = 1

\* the three query texts of a row, in the order of the ladder
Ladder(row) ==
    <<Str(row.name) \o ", " \o Str(row.address) \o ", " \o Str(row.city),
      row.name \o ", " \o row.city,
      row.address>>

C8_Original ==
    /\ connection # "unbound" =>
          /\ index = Len(xlsx)
          /\ \E k \in 1..Len(written) : written[k].file = SNAPSHOT
    /\ pc \in {"done", "crashed"} => connection # "open"
    /\ pc # "crashed"

\* s is a prefix of t
IsPrefix(s, t) == Len(s) <= Len(t) /\ SubSeq(t, 1, Len(s)) = s

\* C9: the append of a run, and any step that changes the table, adds exactly one
\* row per input row, in input order, after the rows already there, and the
\* create-table statement was issued and committed before it; no step removes or changes a row of the table; so a second
\* successful run doubles the rows the input contributed.
C9_AppendOnly ==
    /\ [][/\ IsPrefix(table, table')
          /\ (table' # table \/ (Len(stmts') > Len(stmts) /\ stmts'[Len(stmts')] = "INSERT")) =>
                /\ table' = table \o Ids(xlsx)
                /\ stmts = <<CREATE_TABLE, "COMMIT">>
                /\ stmts' = <<CREATE_TABLE, "COMMIT", "INSERT">>]_vars
    /\ [](Len(table) % Len(xlsx) = 0)

C9_Witness ==
    /\ pc = "done"
    /\ table = Ids(xlsx) \o Ids(xlsx)
    /\ Len(table) = 2 * Len(xlsx)

DetailFaults ==
    {"details: RequestException", "KeyError: result", "KeyError: url", "KeyError: lat",
     "KeyError: lng", "KeyError: photos", "IndexError", "photo: RequestException"}

\* C10: when the three attempts are used up without an acceptance, the next step
\* stores the string "None" as the row's place_id and moves on to the detail
\* lookup, which is issued with the stored place_id, "None" included; such a row
\* ends with empty output fields only by a fault of the detail lookup or of the
\* extraction after it.
C10_ExhaustedStillFetchesDetail ==
    /\ [][(pc = "resolve" /\ place_id = None /\ retry_count = max_retries)
            => (pc' = "detail" /\ data_frame'[index].place_id = "None")]_vars
    /\ [][pc = "detail" => details' = <<Row.place_id>>]_vars
    /\ []((pc \in {"rows", "image"} /\ index >= 1 /\ Row.place_id = "None")
            => /\ details = <<"None">>
               /\ (pc = "rows" /\ Row.map_url = "") => (index \in errors /\ fault \in DetailFaults))

C10_Witness ==
    /\ pc = "rows"
    /\ index >= 1
    /\ Row.place_id = "None"
    /\ details = <<"None">>
    /\ fault = "KeyError: result"
    /\ Row.map_url = ""

====
